---- MODULE Spec2Model ----
(***************************************************************************)
(* State machine of the iced example application (src/main.rs): the       *)
(* AppState record, the update function with its key and window event     *)
(* handlers, the theme and view read paths, and the runtime that feeds     *)
(* messages to update and runs the commands it returns.                    *)
(***************************************************************************)
EXTENDS Integers, Sequences, FiniteSets, TLC

(***************************************************************************)
(* Bounds of the model.                                                    *)
(***************************************************************************)
\* zoom_in is only tried while scale_factor is below ZOOM_DEFAULT zoomed in MaxZoomIn times
MaxZoomIn == 2
\* Alt+Enter is only delivered while fewer than MaxAltEnter FetchMode actions were emitted
MaxAltEnter == 2
\* the view and the subscription only deliver while fewer than MaxPending actions wait
MaxPending == 2
\* the zoom presses since start are counted up to MaxPresses of them
MaxPresses == 4

(***************************************************************************)
(* f64 arithmetic.  Every value the program can compute from 1.0 and 0.1   *)
(* with + and - is an integer multiple of 2^-56 (the unit in the last      *)
(* place of 0.1).  A value is sign and magnitude, the magnitude counted in *)
(* units of 2^-56 and split in two limbs of 28 bits: magnitude =           *)
(* hi * 2^28 + lo.  Each operation computes the exact result and rounds it *)
(* to 53 significant bits, ties to even, as IEEE 754 binary64 does.        *)
(***************************************************************************)
LimbBase == 2^28

F64(neg, hi, lo) == [neg |-> neg, hi |-> hi, lo |-> lo]

\* distance between neighbouring doubles, in units of 2^-56, for a magnitude with high limb hi
Quantum(hi) ==
    IF hi < 2^25 THEN 1
    ELSE IF hi < 2^26 THEN 2
    ELSE IF hi < 2^27 THEN 4
    ELSE IF hi < 2^28 THEN 8
    ELSE IF hi < 2^29 THEN 16
    ELSE IF hi < 2^30 THEN 32
    ELSE 64

\* round the exact magnitude (hi, lo) to the nearest double, ties to even
RoundNearestEven(neg, hi, lo) ==
    LET q == Quantum(hi)
        r == lo % q
        down == lo - r
        up == (2 * r > q) \/ (2 * r = q /\ (down \div q) % 2 = 1)
        lo2 == IF up THEN down + q ELSE down
    IN  IF lo2 = LimbBase THEN F64(neg, hi + 1, 0) ELSE F64(neg, hi, lo2)

MagLt(a, b) == a.hi < b.hi \/ (a.hi = b.hi /\ a.lo < b.lo)

MagAdd(neg, a, b) ==
    LET lo == a.lo + b.lo
    IN  RoundNearestEven(neg, a.hi + b.hi + (lo \div LimbBase), lo % LimbBase)

\* a - b for magnitudes with a >= b
MagSub(neg, a, b) ==
    LET borrow == IF a.lo < b.lo THEN 1 ELSE 0
        lo == a.lo - b.lo + borrow * LimbBase
        hi == a.hi - b.hi - borrow
    IN  IF hi = 0 /\ lo = 0 THEN F64(FALSE, 0, 0) ELSE RoundNearestEven(neg, hi, lo)

FNeg(a) == IF a.hi = 0 /\ a.lo = 0 THEN a ELSE F64(~a.neg, a.hi, a.lo)

FAdd(a, b) ==
    IF a.neg = b.neg THEN MagAdd(a.neg, a, b)
    ELSE IF MagLt(a, b) THEN MagSub(b.neg, b, a)
    ELSE MagSub(a.neg, a, b)

FSub(a, b) == FAdd(a, FNeg(b))

FLt(a, b) ==
    IF a.neg /\ ~b.neg THEN TRUE
    ELSE IF ~a.neg /\ b.neg THEN FALSE
    ELSE IF a.neg THEN MagLt(b, a)
    ELSE MagLt(a, b)

FLe(a, b) == ~FLt(b, a)

\* f64::max (no NaN arises from + and - of finite values)
FMax(a, b) == IF FLt(a, b) THEN b ELSE a

(***************************************************************************)
(* AppState and its zoom operations.                                       *)
(***************************************************************************)
\* Option<bool>
None == {}
Some(v) == {v}

\* 0.1 as a double is 0x1.999999999999ap-4 = 0x1999999999999A * 2^-56
ZOOM_DELTA == F64(FALSE, 26843545, 161061274)
\* 1.0 = 2^56 * 2^-56
ZOOM_DEFAULT == F64(FALSE, 2^28, 0)

AppState(d, z, x) == [dark_mode |-> d, scale_factor |-> z, show_exit_dialog |-> x]

\* the Default a derive would give: None, 0.0, false
AppState_derived_default == AppState(None, F64(FALSE, 0, 0), FALSE)

AppState_default == AppState(Some(TRUE), ZOOM_DEFAULT, FALSE)

\* zoom_in adding the wrong constant
zoom_in_default(s) == [s EXCEPT !.scale_factor = FAdd(s.scale_factor, ZOOM_DEFAULT)]

zoom_in(s) == [s EXCEPT !.scale_factor = FAdd(s.scale_factor, ZOOM_DELTA)]

\* zoom_out without the floor
zoom_out_unclamped(s) == [s EXCEPT !.scale_factor = FSub(s.scale_factor, ZOOM_DELTA)]

zoom_out(s) ==
    [s EXCEPT !.scale_factor = FMax(FSub(s.scale_factor, ZOOM_DELTA), ZOOM_DELTA)]

\* zoom_reset storing the wrong constant
zoom_reset_delta(s) == [s EXCEPT !.scale_factor = ZOOM_DELTA]

\* zoom_reset replacing the whole state by the default
zoom_reset_state(s) == AppState_default

zoom_reset(s) == [s EXCEPT !.scale_factor = ZOOM_DEFAULT]

(***************************************************************************)
(* Events, messages and commands.                                          *)
(***************************************************************************)
\* iced::window::Mode
Mode == {"Windowed", "Fullscreen", "Hidden"}

\* iced::keyboard::KeyCode: the four keys the handler names and one other key
KeyCode == {"Enter", "Minus", "Equals", "Key0", "A"}

\* iced::keyboard::Modifiers is a set of flags
ModifierFlags == {"SHIFT", "CTRL", "ALT"}
Modifiers == SUBSET ModifierFlags
ALT == {"ALT"}
CTRL == {"CTRL"}

MkEvent(kind, name, key_code, modifiers) ==
    [kind |-> kind, name |-> name, key_code |-> key_code, modifiers |-> modifiers]

KeyPressed(key_code, modifiers) == MkEvent("Keyboard", "KeyPressed", key_code, modifiers)
KeyReleased(key_code, modifiers) == MkEvent("Keyboard", "KeyReleased", key_code, modifiers)
WindowEvent(name) == MkEvent("Window", name, "None", {})
CloseRequested == WindowEvent("CloseRequested")
MouseEvent(name) == MkEvent("Mouse", name, "None", {})
NoEvent == MkEvent("None", "None", "None", {})

KeyboardEvents ==
    {KeyPressed(k, m) : k \in KeyCode, m \in Modifiers}
        \cup {KeyReleased(k, m) : k \in KeyCode, m \in Modifiers}
WindowEvents == {WindowEvent(n) : n \in {"CloseRequested", "Resized", "Focused", "Unfocused"}}
MouseEvents == {MouseEvent(n) : n \in {"CursorMoved", "ButtonPressed"}}

\* iced::Event
Event == KeyboardEvents \cup WindowEvents \cup MouseEvents

\* enum Message; a field a variant does not carry holds a fixed filler
MkMessage(tag, event, flag, mode) ==
    [tag |-> tag, event |-> event, flag |-> flag, mode |-> mode]

AppEvent(event) == MkMessage("AppEvent", event, FALSE, "Windowed")
ToggleDarkMode(enable) == MkMessage("ToggleDarkMode", NoEvent, enable, "Windowed")
ToggleFullScreen(cur_mode) == MkMessage("ToggleFullScreen", NoEvent, FALSE, cur_mode)
ConfirmExit(confirm_exit) == MkMessage("ConfirmExit", NoEvent, confirm_exit, "Windowed")
\* nothing processed yet
NoMessage == MkMessage("None", NoEvent, FALSE, "Windowed")

Message ==
    {AppEvent(e) : e \in Event}
        \cup {ToggleDarkMode(b) : b \in BOOLEAN}
        \cup {ToggleFullScreen(m) : m \in Mode}
        \cup {ConfirmExit(b) : b \in BOOLEAN}

\* Command<Message>: the sequence of actions the runtime is asked to run
MkAction(tag, arg) == [tag |-> tag, arg |-> arg]
Command_none == << >>
\* window::fetch_mode(f): ask the window for its mode and send f(mode) back
fetch_mode(f) == << MkAction("FetchMode", f) >>
\* window::change_mode(mode)
change_mode(mode) == << MkAction("ChangeMode", mode) >>
\* window::close()
close == << MkAction("Close", "") >>

(***************************************************************************)
(* The handlers.  Each takes the AppState and returns the AppState after   *)
(* the call and the Command returned.                                      *)
(***************************************************************************)
Result(s, c) == [state |-> s, command |-> c]

\* handle_key_event testing that the modifier is held instead of matching the modifier set
handle_key_event_contains(s, event) ==
    IF event.name = "KeyPressed" /\ event.key_code = "Enter" /\ ALT \subseteq event.modifiers
    THEN Result(s, fetch_mode("ToggleFullScreen"))
    ELSE IF event.name = "KeyPressed" /\ event.key_code = "Minus" /\ CTRL \subseteq event.modifiers
    THEN Result(zoom_out(s), Command_none)
    ELSE IF event.name = "KeyPressed" /\ event.key_code = "Equals" /\ CTRL \subseteq event.modifiers
    THEN Result(zoom_in(s), Command_none)
    ELSE IF event.name = "KeyPressed" /\ event.key_code = "Key0" /\ CTRL \subseteq event.modifiers
    THEN Result(zoom_reset(s), Command_none)
    ELSE Result(s, Command_none)

\* handle_key_event whose Alt+Enter arm batches the query with a mode change
handle_key_event_batch(s, event) ==
    IF event = KeyPressed("Enter", ALT)
    THEN Result(s, fetch_mode("ToggleFullScreen") \o change_mode("Fullscreen"))
    ELSE IF event = KeyPressed("Minus", CTRL) THEN Result(zoom_out(s), Command_none)
    ELSE IF event = KeyPressed("Equals", CTRL) THEN Result(zoom_in(s), Command_none)
    ELSE IF event = KeyPressed("Key0", CTRL) THEN Result(zoom_reset(s), Command_none)
    ELSE Result(s, Command_none)

\* handle_key_event whose Alt+Enter arm returns no command
handle_key_event_no_fetch(s, event) ==
    IF event = KeyPressed("Minus", CTRL) THEN Result(zoom_out(s), Command_none)
    ELSE IF event = KeyPressed("Equals", CTRL) THEN Result(zoom_in(s), Command_none)
    ELSE IF event = KeyPressed("Key0", CTRL) THEN Result(zoom_reset(s), Command_none)
    ELSE Result(s, Command_none)

handle_key_event(s, event) ==
    IF event = KeyPressed("Enter", ALT) THEN Result(s, fetch_mode("ToggleFullScreen"))
    ELSE IF event = KeyPressed("Minus", CTRL) THEN Result(zoom_out(s), Command_none)
    ELSE IF event = KeyPressed("Equals", CTRL) THEN Result(zoom_in(s), Command_none)
    ELSE IF event = KeyPressed("Key0", CTRL) THEN Result(zoom_reset(s), Command_none)
    ELSE Result(s, Command_none)

\* handle_window_event closing the window at once
handle_window_event_closes(s, event) ==
    IF event = CloseRequested
    THEN Result([s EXCEPT !.show_exit_dialog = TRUE], close)
    ELSE Result(s, Command_none)

handle_window_event(s, event) ==
    IF event = CloseRequested
    THEN Result([s EXCEPT !.show_exit_dialog = TRUE], Command_none)
    ELSE Result(s, Command_none)

\* the arms of the match in update
update_AppEvent(s, event) ==
    IF event.kind = "Keyboard" THEN handle_key_event(s, event)
    ELSE IF event.kind = "Window" THEN handle_window_event(s, event)
    ELSE Result(s, Command_none)

\* ToggleDarkMode storing the flag with bool::then_some
update_ToggleDarkMode_then_some(s, enable) ==
    Result([s EXCEPT !.dark_mode = IF enable THEN Some(TRUE) ELSE None], Command_none)

\* ToggleDarkMode ignored while the exit dialog is shown
update_ToggleDarkMode_guarded(s, enable) ==
    IF s.show_exit_dialog THEN Result(s, Command_none)
    ELSE Result([s EXCEPT !.dark_mode = Some(enable)], Command_none)

update_ToggleDarkMode(s, enable) ==
    Result([s EXCEPT !.dark_mode = Some(enable)], Command_none)

\* ToggleFullScreen testing for Windowed instead of Fullscreen
update_ToggleFullScreen_windowed(s, cur_mode) ==
    IF cur_mode = "Windowed"
    THEN Result(s, change_mode("Fullscreen"))
    ELSE Result(s, change_mode("Windowed"))

update_ToggleFullScreen(s, cur_mode) ==
    IF cur_mode = "Fullscreen"
    THEN Result(s, change_mode("Windowed"))
    ELSE Result(s, change_mode("Fullscreen"))

\* ConfirmExit with the test inverted
update_ConfirmExit_inverted(s, confirm_exit) ==
    IF ~confirm_exit
    THEN Result(s, close)
    ELSE Result([s EXCEPT !.show_exit_dialog = FALSE], Command_none)

\* ConfirmExit whose cancel arm forgets to hide the dialog
update_ConfirmExit_keeps(s, confirm_exit) ==
    IF confirm_exit THEN Result(s, close) ELSE Result(s, Command_none)

\* ConfirmExit hiding the dialog on both arms
update_ConfirmExit_clears(s, confirm_exit) ==
    IF confirm_exit
    THEN Result([s EXCEPT !.show_exit_dialog = FALSE], close)
    ELSE Result([s EXCEPT !.show_exit_dialog = FALSE], Command_none)

\* ConfirmExit closing only while the dialog is shown
update_ConfirmExit_guarded(s, confirm_exit) ==
    IF confirm_exit
    THEN IF s.show_exit_dialog THEN Result(s, close) ELSE Result(s, Command_none)
    ELSE Result([s EXCEPT !.show_exit_dialog = FALSE], Command_none)

update_ConfirmExit(s, confirm_exit) ==
    IF confirm_exit
    THEN Result(s, close)
    ELSE Result([s EXCEPT !.show_exit_dialog = FALSE], Command_none)

update(s, m) ==
    CASE m.tag = "AppEvent" -> update_AppEvent(s, m.event)
      [] m.tag = "ToggleDarkMode" -> update_ToggleDarkMode(s, m.flag)
      [] m.tag = "ToggleFullScreen" -> update_ToggleFullScreen(s, m.mode)
      [] m.tag = "ConfirmExit" -> update_ConfirmExit(s, m.flag)

\* theme with the two arms swapped
theme_swapped(s) ==
    IF s.dark_mode = Some(TRUE) THEN "Light"
    ELSE IF s.dark_mode = Some(FALSE) THEN "Dark"
    ELSE "panic"

\* App::theme; unreachable!() panics
theme(s) ==
    IF s.dark_mode = Some(TRUE) THEN "Dark"
    ELSE IF s.dark_mode = Some(FALSE) THEN "Light"
    ELSE "panic"

\* App::view: the messages the widgets on screen can produce
\* view offering the mode radios next to the dialog buttons
view_always_controls(s) ==
    IF s.show_exit_dialog
    THEN {ConfirmExit(TRUE), ConfirmExit(FALSE), ToggleDarkMode(FALSE), ToggleDarkMode(TRUE)}
    ELSE {ToggleDarkMode(FALSE), ToggleDarkMode(TRUE)}

\* view with the two trees exchanged
view_inverted(s) ==
    IF s.show_exit_dialog
    THEN {ToggleDarkMode(FALSE), ToggleDarkMode(TRUE)}
    ELSE {ConfirmExit(TRUE), ConfirmExit(FALSE)}

view(s) ==
    IF s.show_exit_dialog
    THEN {ConfirmExit(TRUE), ConfirmExit(FALSE)}
    ELSE {ToggleDarkMode(FALSE), ToggleDarkMode(TRUE)}

\* App::subscription: the events the runtime produces, each wrapped in AppEvent
subscription(events) == {AppEvent(e) : e \in events}

(***************************************************************************)
(* State.                                                                  *)
(***************************************************************************)
VARIABLES
    dark_mode,          \* AppState.dark_mode
    scale_factor,       \* AppState.scale_factor
    show_exit_dialog,   \* AppState.show_exit_dialog
    message,            \* the message update processed last
    command,            \* the Command that call returned
    dialog_history,     \* the last close-protocol message processed
    scenario,           \* progress of the run through Scenario, and the closes it emitted
    zoom_presses,       \* the Ctrl+Equals and Ctrl+Minus presses since start, while only those
                        \* changed scale_factor and the floor was not hit
    pending,            \* actions of returned Commands the runtime has not run yet
    inbox,              \* messages produced by run actions, not dispatched yet
    window_mode,        \* the window's mode, owned by the runtime
    closed,             \* the window is closed and the application has exited
    fetch_count,        \* FetchMode actions handed to the runtime so far
    change_count        \* ChangeMode actions handed to the runtime so far

app_vars == << dark_mode, scale_factor, show_exit_dialog >>
step_vars == << message, command, dialog_history, scenario, zoom_presses >>
runtime_vars == << pending, inbox, window_mode, closed, fetch_count, change_count >>
vars == << app_vars, step_vars, runtime_vars >>

State == AppState(dark_mode, scale_factor, show_exit_dialog)

\* [CloseRequested, ExitConfirmed(false), CloseRequested, ExitConfirmed(true)]
Scenario ==
    << AppEvent(CloseRequested), ConfirmExit(FALSE), AppEvent(CloseRequested), ConfirmExit(TRUE) >>

Count(c, tag) == Cardinality({i \in 1..Len(c) : c[i].tag = tag})

\* the scenario is followed while the messages processed since start are a prefix of it
ScenarioAfter(m, c) ==
    IF scenario.pos >= 0 /\ scenario.pos < Len(Scenario) /\ m = Scenario[scenario.pos + 1]
    THEN [pos |-> scenario.pos + 1, closes |-> scenario.closes + Count(c, "Close")]
    ELSE [pos |-> -1, closes |-> 0]

DialogHistoryAfter(m) ==
    IF m = AppEvent(CloseRequested) THEN "CloseRequested"
    ELSE IF m = ConfirmExit(FALSE) THEN "ConfirmExit(false)"
    ELSE dialog_history

\* the presses are counted until Ctrl+0 is processed, the floor is hit (scale_factor -
\* ZOOM_DELTA < ZOOM_DELTA at a Ctrl+Minus) or MaxPresses of them were counted
ZoomPressesAfter(m) ==
    LET n == zoom_presses.ins + zoom_presses.outs
        untracked == [tracked |-> FALSE, ins |-> 0, outs |-> 0]
    IN  IF ~zoom_presses.tracked THEN zoom_presses
        ELSE IF m = AppEvent(KeyPressed("Equals", CTRL))
        THEN IF n < MaxPresses THEN [zoom_presses EXCEPT !.ins = @ + 1] ELSE untracked
        ELSE IF m = AppEvent(KeyPressed("Minus", CTRL))
        THEN IF n < MaxPresses /\ FLe(ZOOM_DELTA, FSub(scale_factor, ZOOM_DELTA))
             THEN [zoom_presses EXCEPT !.outs = @ + 1]
             ELSE untracked
        ELSE IF m = AppEvent(KeyPressed("Key0", CTRL)) THEN untracked
        ELSE zoom_presses

\* App::new
Init ==
    /\ dark_mode = AppState_default.dark_mode
    /\ scale_factor = AppState_default.scale_factor
    /\ show_exit_dialog = AppState_default.show_exit_dialog
    /\ message = NoMessage
    /\ command = Command_none
    /\ dialog_history = "None"
    /\ scenario = [pos |-> 0, closes |-> 0]
    /\ zoom_presses = [tracked |-> TRUE, ins |-> 0, outs |-> 0]
    /\ pending = << >>
    /\ inbox = << >>
    /\ window_mode = "Windowed"
    /\ closed = FALSE
    /\ fetch_count = 0
    /\ change_count = 0

RECURSIVE ZoomedIn(_, _)
ZoomedIn(s, n) == IF n = 0 THEN s ELSE ZoomedIn(zoom_in(s), n - 1)

ZoomCap == ZoomedIn(AppState_default, MaxZoomIn).scale_factor

\* zoom_in is not tried at or above ZoomCap
WithinBounds(m) ==
    m = AppEvent(KeyPressed("Equals", CTRL)) => FLt(scale_factor, ZoomCap)

\* one call of update
Process(m) ==
    /\ WithinBounds(m)
    /\ \E r \in {update(State, m)} :
        /\ dark_mode' = r.state.dark_mode
        /\ scale_factor' = r.state.scale_factor
        /\ show_exit_dialog' = r.state.show_exit_dialog
        /\ message' = m
        /\ command' = r.command
        /\ dialog_history' = DialogHistoryAfter(m)
        /\ scenario' = ScenarioAfter(m, r.command)
        /\ zoom_presses' = ZoomPressesAfter(m)

(***************************************************************************)
(* Spec: update applied to any sequence of messages.                       *)
(***************************************************************************)
OnAppEvent == \E m \in subscription(Event) : Process(m) /\ UNCHANGED runtime_vars

OnToggleDarkMode == \E b \in BOOLEAN : Process(ToggleDarkMode(b)) /\ UNCHANGED runtime_vars

OnToggleFullScreen == \E m \in Mode : Process(ToggleFullScreen(m)) /\ UNCHANGED runtime_vars

OnConfirmExit == \E b \in BOOLEAN : Process(ConfirmExit(b)) /\ UNCHANGED runtime_vars

Next == OnAppEvent \/ OnToggleDarkMode \/ OnToggleFullScreen \/ OnConfirmExit

Spec == Init /\ [][Next]_vars

(***************************************************************************)
(* AppSpec: the application under the runtime.  Messages come from the     *)
(* view, from the subscription and from the results of the commands the    *)
(* runtime runs asynchronously.                                            *)
(***************************************************************************)
\* the events the runtime delivers in AppSpec: the five the handlers act on and one
\* ignored event of each kind
RuntimeEvents ==
    {KeyPressed("Enter", ALT), KeyPressed("Minus", CTRL), KeyPressed("Equals", CTRL),
     KeyPressed("Key0", CTRL), CloseRequested,
     KeyReleased("Enter", ALT), WindowEvent("Resized"), MouseEvent("CursorMoved")}

\* update is called with m and the Command it returns is handed to the runtime
Dispatch(m) ==
    /\ Process(m)
    /\ pending' = pending \o command'
    /\ fetch_count' = fetch_count + Count(command', "FetchMode")
    /\ change_count' = change_count + Count(command', "ChangeMode")

\* a widget of the current view produces a message
ViewMessage ==
    /\ ~closed
    /\ Len(pending) < MaxPending
    /\ \E m \in view(State) : Dispatch(m)
    /\ UNCHANGED << inbox, window_mode, closed >>

\* the subscription delivers an event
SubscriptionEvent ==
    /\ ~closed
    /\ Len(pending) < MaxPending
    /\ \E m \in subscription(RuntimeEvents) :
        /\ m.event = KeyPressed("Enter", ALT) => fetch_count < MaxAltEnter
        /\ Dispatch(m)
    /\ UNCHANGED << inbox, window_mode, closed >>

\* the runtime runs the oldest action handed to it
RunAction ==
    /\ ~closed
    /\ pending # << >>
    /\ pending' = Tail(pending)
    /\ LET a == Head(pending)
       IN  CASE a.tag = "FetchMode" ->
                    /\ inbox' = Append(inbox, ToggleFullScreen(window_mode))
                    /\ UNCHANGED << window_mode, closed >>
             [] a.tag = "ChangeMode" ->
                    /\ window_mode' = a.arg
                    /\ UNCHANGED << inbox, closed >>
             [] a.tag = "Close" ->
                    /\ closed' = TRUE
                    /\ UNCHANGED << inbox, window_mode >>
    /\ UNCHANGED << app_vars, step_vars, fetch_count, change_count >>

\* the result of a run action is dispatched to update
CommandResult ==
    /\ ~closed
    /\ inbox # << >>
    /\ Dispatch(Head(inbox))
    /\ inbox' = Tail(inbox)
    /\ UNCHANGED << window_mode, closed >>

AppNext == ViewMessage \/ SubscriptionEvent \/ RunAction \/ CommandResult

AppSpec == Init /\ [][AppNext]_vars

\* the runtime keeps running actions and dispatching their results
FairAppSpec == AppSpec /\ WF_vars(RunAction) /\ WF_vars(CommandResult)

(***************************************************************************)
(* Properties of update under any sequence of messages (Spec).             *)
(***************************************************************************)
CtrlMinus == AppEvent(KeyPressed("Minus", CTRL))
CtrlEquals == AppEvent(KeyPressed("Equals", CTRL))
Ctrl0 == AppEvent(KeyPressed("Key0", CTRL))
AltEnter == AppEvent(KeyPressed("Enter", ALT))

\* the raw events the handlers act on
ClassifiedEvents ==
    {KeyPressed("Enter", ALT), KeyPressed("Minus", CTRL), KeyPressed("Equals", CTRL),
     KeyPressed("Key0", CTRL), CloseRequested}

\* C1: in every reachable state scale_factor >= ZOOM_DELTA (0.1), and Ctrl+Minus
\* processed at scale_factor = ZOOM_DELTA leaves it at ZOOM_DELTA.
C1_ZoomFloor ==
    /\ [](FLe(ZOOM_DELTA, scale_factor))
    /\ [][(message' = CtrlMinus /\ scale_factor = ZOOM_DELTA) => scale_factor' = ZOOM_DELTA]_vars

\* Ctrl+Minus has been processed and the zoom sits on the floor
C1_Witness == message = CtrlMinus /\ scale_factor = ZOOM_DELTA

\* C2: dark_mode is never None in a reachable state, so theme never reaches the
\* unreachable!() branch.
C2_DarkModeSet == dark_mode # None /\ theme(State) # "panic"

\* ToggleDarkMode(false) has been processed and the theme reads Light
C2_Witness == message = ToggleDarkMode(FALSE) /\ dark_mode = Some(FALSE) /\ theme(State) = "Light"

\* C3: a Close action is returned only by the call that processed ConfirmExit(true);
\* processing the window's CloseRequested returns no action and only sets
\* show_exit_dialog.
C3_NoSelfClose ==
    /\ [](Count(command, "Close") > 0 => message = ConfirmExit(TRUE))
    /\ [][message' = AppEvent(CloseRequested) =>
            (command' = Command_none /\ show_exit_dialog' /\ UNCHANGED << dark_mode, scale_factor >>)]_vars

\* CloseRequested has been processed: the dialog is shown and nothing was emitted
C3_Witness == message = AppEvent(CloseRequested) /\ show_exit_dialog /\ command = Command_none

\* C4: processing ConfirmExit(true) in any state returns exactly one Close action and
\* leaves dark_mode, scale_factor and show_exit_dialog unchanged.
C4_ConfirmExitTrue ==
    [][message' = ConfirmExit(TRUE) => (command' = close /\ UNCHANGED app_vars)]_vars

\* ConfirmExit(true) has been processed in a state that differs from the default in every field
C4_Witness ==
    /\ message = ConfirmExit(TRUE)
    /\ command = close
    /\ dark_mode = Some(FALSE)
    /\ scale_factor # ZOOM_DEFAULT
    /\ show_exit_dialog

\* C5: show_exit_dialog is true exactly when a CloseRequested has been processed and no
\* ConfirmExit(false) after the last one; it goes from true to false only in the call
\* that processes ConfirmExit(false).
C5_DialogPending ==
    /\ [](show_exit_dialog <=> dialog_history = "CloseRequested")
    /\ [][(show_exit_dialog /\ ~show_exit_dialog') => message' = ConfirmExit(FALSE)]_vars

\* a close request is pending and a later message other than the cancel has been processed
C5_Witness ==
    /\ dialog_history = "CloseRequested"
    /\ show_exit_dialog
    /\ message = ConfirmExit(TRUE)
    /\ scenario.pos = -1

\* C6 as stated: after [CloseRequested, ConfirmExit(false), CloseRequested,
\* ConfirmExit(true)] from the initial state exactly one Close was emitted, by the last
\* message, and show_exit_dialog is false.
C6_Original ==
    scenario.pos = Len(Scenario) =>
        (scenario.closes = 1 /\ command = close /\ show_exit_dialog = FALSE)

\* C6 amended: after the same four messages exactly one Close was emitted, by the last
\* message, and show_exit_dialog is still true.
C6_Scenario ==
    scenario.pos = Len(Scenario) =>
        (scenario.closes = 1 /\ command = close /\ show_exit_dialog = TRUE)

\* the four messages of the scenario have been processed, in order, from the initial state
C6_Witness == scenario.pos = Len(Scenario) /\ message = Scenario[Len(Scenario)]

\* C7 as stated: ConfirmExit(true) or ConfirmExit(false) processed while
\* show_exit_dialog is false leaves the state unchanged and returns no action.
C7_Original ==
    [][(message'.tag = "ConfirmExit" /\ ~show_exit_dialog) =>
            (UNCHANGED app_vars /\ command' = Command_none)]_vars

\* C7 amended: processed while show_exit_dialog is false, ConfirmExit(false) leaves the
\* state unchanged and returns no action; ConfirmExit(true) leaves the state unchanged
\* and still returns one Close action.
C7_Redundant ==
    [][(message'.tag = "ConfirmExit" /\ ~show_exit_dialog) =>
            (/\ UNCHANGED app_vars
             /\ message'.flag => command' = close
             /\ ~message'.flag => command' = Command_none)]_vars

\* ConfirmExit(true) has been processed with no close request ever made
C7_Witness ==
    message = ConfirmExit(TRUE) /\ dialog_history = "None" /\ ~show_exit_dialog /\ command = close

\* C9: processing ToggleFullScreen(mode) leaves the state unchanged and returns exactly
\* one action: ChangeMode(Windowed) for Fullscreen, ChangeMode(Fullscreen) for Windowed
\* and for Hidden.
C9_ToggleFullScreen ==
    [][message'.tag = "ToggleFullScreen" =>
            (/\ UNCHANGED app_vars
             /\ message'.mode = "Fullscreen" => command' = << MkAction("ChangeMode", "Windowed") >>
             /\ message'.mode = "Windowed" => command' = << MkAction("ChangeMode", "Fullscreen") >>
             /\ message'.mode = "Hidden" => command' = << MkAction("ChangeMode", "Fullscreen") >>)]_vars

\* ToggleFullScreen(Hidden) has been processed
C9_Witness ==
    message = ToggleFullScreen("Hidden") /\ command = << MkAction("ChangeMode", "Fullscreen") >>

\* C10: a raw event other than KeyPressed Alt+Enter, Ctrl+Minus, Ctrl+Equals, Ctrl+0 and
\* the window's CloseRequested leaves the state unchanged and returns no action.
C10_Unclassified ==
    [][(message'.tag = "AppEvent" /\ message'.event \notin ClassifiedEvents) =>
            (UNCHANGED app_vars /\ command' = Command_none)]_vars

\* Ctrl+Shift+Minus has been processed away from the default zoom
C10_Witness ==
    /\ message = AppEvent(KeyPressed("Minus", {"CTRL", "SHIFT"}))
    /\ scale_factor # ZOOM_DEFAULT
    /\ command = Command_none

(***************************************************************************)
(* Properties of the application under the runtime (AppSpec, FairAppSpec). *)
(***************************************************************************)
\* the safety half of C8: Alt+Enter changes no field and returns exactly one FetchMode
\* action whose answer comes back as ToggleFullScreen; every FetchMode emitted is
\* waiting, answered and waiting, or has produced exactly one ChangeMode
C8_Safety ==
    /\ [][message' = AltEnter =>
            (UNCHANGED app_vars /\ command' = << MkAction("FetchMode", "ToggleFullScreen") >>)]_vars
    /\ [](\A i \in 1..Len(inbox) : inbox[i] = ToggleFullScreen(inbox[i].mode))
    /\ [](change_count + Len(inbox) + Count(pending, "FetchMode") = fetch_count)

\* C8 as stated: Alt+Enter leaves the state unchanged and returns one FetchMode action,
\* answered as ToggleFullScreen(m); no ChangeMode is emitted without an earlier
\* FetchMode, and the k-th Alt+Enter is eventually followed by the k-th ChangeMode.
C8_Original ==
    /\ C8_Safety
    /\ \A k \in 1..MaxAltEnter : (fetch_count >= k) ~> (change_count >= k)

\* C8 amended: as above, but the k-th Alt+Enter is eventually followed by the k-th
\* ChangeMode unless the window is closed before that.
C8_QueryThenToggle ==
    /\ C8_Safety
    /\ \A k \in 1..MaxAltEnter : (fetch_count >= k) ~> (change_count >= k \/ closed)

\* two Alt+Enter presses have each been answered and have each produced a ChangeMode
C8_Witness ==
    /\ message.tag = "ToggleFullScreen"
    /\ fetch_count = 2
    /\ change_count = 2
    /\ pending = << >>
    /\ window_mode = "Windowed"

(***************************************************************************)
(* Further properties of update under any sequence of messages (Spec).     *)
(***************************************************************************)
\* C11: whatever the state before, the call that processes Ctrl+0 leaves scale_factor
\* at exactly 1.0 (2^56 units of 2^-56).
C11_ZoomReset == message = Ctrl0 => scale_factor = F64(FALSE, 2^28, 0)

\* Ctrl+0 has been processed after the mode was changed and a close was requested
C11_Witness ==
    /\ message = Ctrl0
    /\ scale_factor = F64(FALSE, 2^28, 0)
    /\ dark_mode = Some(FALSE)
    /\ dialog_history = "CloseRequested"


\* n * a in f64, for an integer n
FMulInt(a, n) ==
    LET k == IF n < 0 THEN -n ELSE n
        lo == a.lo * k
        hi == a.hi * k + (lo \div LimbBase)
    IN  IF k = 0 \/ (a.hi = 0 /\ a.lo = 0) THEN F64(FALSE, 0, 0)
        ELSE RoundNearestEven((n < 0) # a.neg, hi, lo % LimbBase)

\* z - (1.0 + n * ZOOM_DELTA), computed exactly, in units of 2^-56 (for z within one
\* high limb of the exact sum)
ErrUnits(z, n) ==
    LET lo == n * ZOOM_DELTA.lo
        elo == lo % LimbBase
        ehi == ZOOM_DEFAULT.hi + n * ZOOM_DELTA.hi + (lo \div LimbBase)
    IN  (z.hi - ehi) * LimbBase + (z.lo - elo)

ErrHi(z, n) ==
    z.hi - (ZOOM_DEFAULT.hi + n * ZOOM_DELTA.hi + ((n * ZOOM_DELTA.lo) \div LimbBase))

C13_ThemeFollowsMode ==
    message.tag = "ToggleDarkMode" =>
        (/\ message.flag => theme(State) = "Dark"
         /\ ~message.flag => theme(State) = "Light")

\* ToggleDarkMode(true) has been processed with the dialog shown and the zoom changed
C13_Witness ==
    /\ message = ToggleDarkMode(TRUE)
    /\ theme(State) = "Dark"
    /\ show_exit_dialog
    /\ scale_factor # ZOOM_DEFAULT

\* C14: the state App::new builds is dark_mode = Some(true), scale_factor = 1.0,
\* show_exit_dialog = false, and App::new returns no action.
C14_InitialState ==
    message = NoMessage =>
        (/\ dark_mode = Some(TRUE)
         /\ scale_factor = F64(FALSE, 2^28, 0)
         /\ show_exit_dialog = FALSE
         /\ command = << >>)

\* the application has been created and no message has been processed
C14_Witness == message = NoMessage /\ command = << >> /\ pending = << >> /\ theme(State) = "Dark"

\* the values an AppState field can take
WellFormedState(s) ==
    /\ DOMAIN s = {"dark_mode", "scale_factor", "show_exit_dialog"}
    /\ s.dark_mode \in {None, Some(TRUE), Some(FALSE)}
    /\ s.show_exit_dialog \in BOOLEAN
    /\ DOMAIN s.scale_factor = {"neg", "hi", "lo"}
    /\ s.scale_factor.hi \in Nat /\ s.scale_factor.lo \in 0..(LimbBase - 1)

\* C15: in every reachable state update is defined for every message of the closed set
\* Message, yields one well-formed successor state and returns zero or one action.
C15_TotalAtMostOneEffect ==
    /\ \A m \in Message :
          LET r == update(State, m)
          IN  /\ WellFormedState(r.state)
              /\ Len(r.command) <= 1
              /\ \A i \in 1..Len(r.command) : r.command[i].tag \in {"FetchMode", "ChangeMode", "Close"}
    /\ Len(command) <= 1

\* an action-returning message has been processed in a state away from the defaults
C15_Witness ==
    /\ message = AltEnter
    /\ Len(command) = 1
    /\ scale_factor = ZOOM_DELTA
    /\ dark_mode = Some(FALSE)


\* the messages that change dark_mode or scale_factor
ModeAndZoomMessages == {ToggleDarkMode(TRUE), ToggleDarkMode(FALSE), CtrlMinus, CtrlEquals, Ctrl0}

\* C17: update does not test show_exit_dialog: for ToggleDarkMode(v), Ctrl+Minus,
\* Ctrl+Equals and Ctrl+0, the call made with show_exit_dialog = true gives the same
\* dark_mode, scale_factor and Command as the call made with show_exit_dialog = false,
\* and leaves show_exit_dialog true.
C17_NoDialogGuard ==
    \A m \in ModeAndZoomMessages :
        LET shown == update([State EXCEPT !.show_exit_dialog = TRUE], m)
            hidden == update([State EXCEPT !.show_exit_dialog = FALSE], m)
        IN  /\ shown.state.dark_mode = hidden.state.dark_mode
            /\ shown.state.scale_factor = hidden.state.scale_factor
            /\ shown.command = hidden.command
            /\ shown.state.show_exit_dialog = TRUE
            /\ hidden.state.show_exit_dialog = FALSE
            /\ m.tag = "ToggleDarkMode" => shown.state.dark_mode = Some(m.flag)

\* ToggleDarkMode(false) has been processed while the dialog is shown, and took effect
C17_Witness ==
    /\ message = ToggleDarkMode(FALSE)
    /\ show_exit_dialog
    /\ dark_mode = Some(FALSE)
    /\ dialog_history = "CloseRequested"

\* C19: ToggleDarkMode changes only dark_mode; Ctrl+Minus, Ctrl+Equals and Ctrl+0 change
\* only scale_factor; the window's CloseRequested and ConfirmExit(false) change only
\* show_exit_dialog; each returns no action.
C19_OneFieldNoEffect ==
    [][/\ message'.tag = "ToggleDarkMode" =>
            (UNCHANGED << scale_factor, show_exit_dialog >> /\ command' = Command_none)
       /\ message' \in {CtrlMinus, CtrlEquals, Ctrl0} =>
            (UNCHANGED << dark_mode, show_exit_dialog >> /\ command' = Command_none)
       /\ message' \in {AppEvent(CloseRequested), ConfirmExit(FALSE)} =>
            (UNCHANGED << dark_mode, scale_factor >> /\ command' = Command_none)]_vars

\* Ctrl+0 has been processed and the two other fields keep their non-default values
C19_Witness ==
    /\ message = Ctrl0
    /\ dark_mode = Some(FALSE)
    /\ show_exit_dialog
    /\ command = Command_none


(***************************************************************************)
(* Further properties of the application under the runtime (AppSpec).      *)
(***************************************************************************)

\* C16 as stated: with messages coming from the view and the subscription, while
\* show_exit_dialog is true neither dark_mode nor scale_factor changes.
C16_Original ==
    [][show_exit_dialog => UNCHANGED << dark_mode, scale_factor >>]_vars

\* C16 amended: while show_exit_dialog is true dark_mode does not change (the view
\* offers only the two ConfirmExit buttons), and scale_factor changes only when the
\* subscription delivers Ctrl+Minus, Ctrl+Equals or Ctrl+0.
C16_DialogBlocksView ==
    /\ [][show_exit_dialog => dark_mode' = dark_mode]_vars
    /\ [][(show_exit_dialog /\ scale_factor' # scale_factor) =>
            message' \in {CtrlMinus, CtrlEquals, Ctrl0}]_vars

\* the zoom has been changed by Ctrl+Minus while the dialog is shown
C16_Witness ==
    /\ show_exit_dialog
    /\ dialog_history = "CloseRequested"
    /\ message = CtrlMinus
    /\ scale_factor = ZOOM_DELTA
    /\ ~closed

\* C18: the view offers ConfirmExit(true/false) only while show_exit_dialog is true
\* and ToggleDarkMode only while it is false; with messages coming only from the view,
\* the subscription and command results, a ConfirmExit(true) is processed only with the
\* dialog shown, and every Close action is returned after a CloseRequested with no
\* ConfirmExit(false) processed in between.
C18_TwoPhaseClose ==
    /\ \A m \in view(State) :
        /\ m.tag = "ConfirmExit" => show_exit_dialog
        /\ m.tag = "ToggleDarkMode" => ~show_exit_dialog
    /\ view(State) # {}
    /\ message.tag = "ToggleDarkMode" => ~show_exit_dialog
    /\ message = ConfirmExit(TRUE) => show_exit_dialog
    /\ Count(command, "Close") > 0 => dialog_history = "CloseRequested"

\* the window has been closed by the action ConfirmExit(true) returned
C18_Witness ==
    /\ closed
    /\ message = ConfirmExit(TRUE)
    /\ command = close
    /\ dialog_history = "CloseRequested"
    /\ show_exit_dialog

\* C20: once every action and every answer has been handled, the window is Fullscreen
\* after an odd number of Alt+Enter presses and Windowed after an even number.
C20_TogglePerPress ==
    (~closed /\ pending = << >> /\ inbox = << >>) =>
        window_mode = (IF fetch_count % 2 = 1 THEN "Fullscreen" ELSE "Windowed")

====
